---- MODULE Spec2Model ----
(***************************************************************************)
(* HC12-RTLSDR-Demodulator.                                                *)
(*                                                                         *)
(* The module models the parts of the repository, each under its own       *)
(* specification over the same variables:                                  *)
(*   Spec / FairSpec       rtlsdr.rs: RTLSDRController, its producer       *)
(*                         thread, the sample and control channels and the *)
(*                         consumer's get_samples                          *)
(*   SdrSpec / SdrFairSpec sdr.rs: run_sdr_loop and its output channel     *)
(*   DecoderSpec           hc12_decoder.rs: HC12Decoder as an object       *)
(*   SymSpec               hc12_decoder.rs: symbols_to_bytes as a function *)
(*   BytesSpec             demodulator.rs: decode_bytes round trip         *)
(*   StreamSpec            demodulator.rs: decode_bytes called repeatedly  *)
(*   GfskSpec              demodulator.rs: GfskDemodulator, new and process*)
(***************************************************************************)
EXTENDS Integers, Sequences, FiniteSets, TLC

VARIABLES
    \* ---- rtlsdr.rs --------------------------------------------------
    prod_pc,        \* position of rtlsdr_thread
    mode,           \* "none" | "device" | "sim": which loop the thread runs
    source,         \* the RTL-SDR device: "absent" | "ok" | "lost"
    samples,        \* the thread's local `samples` (block about to be sent)
    cmd,            \* the thread's local `cmd` (last command taken)
    sample_q,       \* channel sample_tx -> sample_rx
    control_q,      \* channel control_tx -> control_rx
    sample_tx_alive,\* the thread still owns sample_tx
    ctrl_alive,     \* the RTLSDRController (sample_rx, control_tx) is alive
    is_running,     \* Arc<Mutex<bool>>
    dev_freq,       \* device centre frequency
    dev_rate,       \* device sample rate
    next_seq,       \* number (mod SeqMod) of the next block produced
    recv_seq,       \* number of the block the consumer expects next
    got,            \* result of the last get_samples: "none" | "Some" | "None"
    current_samples,\* HC12App.current_samples
    stop_behind,    \* commands queued ahead of Stop when it was sent; -1
                    \* while no Stop is queued
    stop_iters,     \* loop iterations the thread began since Stop was sent
    \* ---- sdr.rs -----------------------------------------------------
    sdr_pc,         \* position of run_sdr_loop
    sdr_ret,        \* its return value: "none" | "Ok" | "Err", or "panic"
                    \* when it unwound without returning
    cfg_gain_db,    \* cfg.gain_db, the caller's
    out_q,          \* the channel behind `out`
    out_tx_alive,   \* run_sdr_loop still owns `out`
    out_rx_alive,   \* the receiving half is alive
    sdr_seq,        \* number (mod SeqMod) of the next callback's block
    out_recv,       \* number of the block the receiver expects next
    \* ---- hc12_decoder.rs --------------------------------------------
    spreading_factor,
    bandwidth,
    fft_size,
    dec_call,       \* the last call made on the decoder
    dec_result,     \* what it returned
    sym_in,         \* symbols_to_bytes: the symbols argument
    sym_out,        \* symbols_to_bytes: the returned bytes
    \* ---- demodulator.rs ---------------------------------------------
    byte_buffer,    \* GfskDemodulator.byte_buffer
    db_bytes,       \* the byte sequence whose bits are passed in
    db_ret,         \* decode_bytes: the returned Option<Vec<u8>>
    bits_in,        \* every bit passed to decode_bytes since new, in order
    bytes_out,      \* every byte decode_bytes returned since new, in order
    \* ---- demodulator.rs: GfskDemodulator ----------------------------
    sample_rate,
    bitrate,        \* samples_per_bit is sample_rate / bitrate
    deviation,
    prev_phase,     \* in units of pi / PhaseSteps
    bit_buffer,
    bit_position,   \* in units of 1 / bitrate
    lpf_state,
    lpf_coeffs,     \* in units of 1 / filter_taps
    fm_demod_output,\* in units of sample_rate / (2 * PhaseSteps * |deviation|)
    filtered_output,\* in units of 1 / filter_taps of that
    bit_decisions,
    phase_diffs,    \* the wrapped phase_diff of each sample of the last call
    consumed,       \* samples processed since new
    emitted,        \* bits emitted since new
    emit_log,       \* of each bit emitted by the last call: its number and
                    \* the samples consumed when it was emitted
    all_iq,         \* the phases of every sample passed to process since new
    all_filtered,   \* every filtered sample since new
    all_bits,       \* the bits returned by the calls since new, in order
    all_emit_at     \* for each of them, the samples consumed at its emission

rtlVars == <<prod_pc, mode, source, samples, cmd, sample_q, control_q,
             sample_tx_alive, ctrl_alive, is_running, dev_freq, dev_rate,
             next_seq, recv_seq, got, current_samples, stop_behind,
             stop_iters>>
sdrVars == <<sdr_pc, sdr_ret, cfg_gain_db, out_q, out_tx_alive, out_rx_alive, sdr_seq, out_recv>>
decVars == <<spreading_factor, bandwidth, fft_size, dec_call, dec_result>>
symVars == <<sym_in, sym_out>>
bytVars == <<byte_buffer, db_bytes, db_ret, bits_in, bytes_out>>
gfskVars == <<sample_rate, bitrate, deviation, prev_phase, bit_buffer,
              bit_position, lpf_state, lpf_coeffs, fm_demod_output,
              filtered_output, bit_decisions, phase_diffs, consumed, emitted,
              emit_log, all_iq, all_filtered, all_bits, all_emit_at>>
vars == <<rtlVars, sdrVars, decVars, symVars, bytVars, gfskVars>>

\* Each part of the program leaves the variables of the other parts alone.
RtlOnly == UNCHANGED <<sdrVars, decVars, symVars, bytVars, gfskVars>>
SdrOnly == UNCHANGED <<rtlVars, decVars, symVars, bytVars, gfskVars>>
DecOnly == UNCHANGED <<rtlVars, sdrVars, symVars, bytVars, gfskVars>>
SymOnly == UNCHANGED <<rtlVars, sdrVars, bytVars, gfskVars>>
BytOnly == UNCHANGED <<rtlVars, sdrVars, decVars, symVars, gfskVars>>
GfskOnly == UNCHANGED <<rtlVars, sdrVars, decVars, symVars, bytVars>>

----------------------------------------------------------------------------
(* Bounds of the model *)

\* Blocks the model lets a channel hold.  The channels of rtlsdr.rs are
\* unbounded; this bound only keeps the state space finite.
MaxQueue == 3
\* Commands the model lets the controller queue before Stop.
MaxCmds == 2
\* Block numbers are counted modulo SeqMod, more than a channel and the
\* producer's hand can hold together.
SeqMod == MaxQueue + 2

----------------------------------------------------------------------------
(* Helpers *)

Min(a, b) == IF a < b THEN a ELSE b
Max(a, b) == IF a > b THEN a ELSE b
Pow2(n) == 2 ^ n

NoBlock == [seq |-> -1, len |-> 0]

----------------------------------------------------------------------------
(* rtlsdr.rs *)

Stop == [op |-> "Stop", arg |-> 0]
SetFrequency(f) == [op |-> "SetFrequency", arg |-> f]
SetSampleRate(r) == [op |-> "SetSampleRate", arg |-> r]
NoCmd == [op |-> "none", arg |-> 0]

DefaultRate == 2048000
DefaultFreq == 915000000
ReadLen == 262144
SimLen == 4096

\* Arguments the GUI passes to set_frequency / set_sample_rate.
FreqArgs == {433000000}
RateArgs == {1024000}
\* Byte counts read_sync returns.
ReadLens == {ReadLen}

\* convert_iq: chunks_exact(2) makes one sample of each complete byte pair.
ConvertIqLen(nbytes) == nbytes \div 2

RtlInit ==
    /\ prod_pc = "open"
    /\ mode = "none"
    /\ source \in {"absent", "ok"}
    /\ samples = NoBlock
    /\ cmd = NoCmd
    /\ sample_q = <<>>
    /\ control_q = <<>>
    /\ sample_tx_alive = TRUE
    /\ ctrl_alive = TRUE
    /\ is_running = FALSE
    /\ dev_freq = 0
    /\ dev_rate = 0
    /\ next_seq = 0
    /\ recv_seq = 0
    /\ got = "none"
    /\ current_samples = NoBlock
    /\ stop_behind = -1
    /\ stop_iters = 0

RtlIdle ==
    /\ prod_pc = "idle"
    /\ mode = "none"
    /\ source = "absent"
    /\ samples = NoBlock
    /\ cmd = NoCmd
    /\ sample_q = <<>>
    /\ control_q = <<>>
    /\ sample_tx_alive = FALSE
    /\ ctrl_alive = FALSE
    /\ is_running = FALSE
    /\ dev_freq = 0
    /\ dev_rate = 0
    /\ next_seq = 0
    /\ recv_seq = 0
    /\ got = "none"
    /\ current_samples = NoBlock
    /\ stop_behind = -1
    /\ stop_iters = 0

\* rtlsdr::open(0) succeeded: configure the device, is_running = true.
OpenOk ==
    /\ prod_pc = "open"
    /\ source = "ok"
    /\ prod_pc' = "check"
    /\ mode' = "device"
    /\ dev_rate' = DefaultRate
    /\ dev_freq' = DefaultFreq
    /\ is_running' = TRUE
    /\ UNCHANGED <<source, samples, cmd, sample_q, control_q, sample_tx_alive,
                   ctrl_alive, next_seq, recv_seq, got, current_samples>>
    /\ UNCHANGED <<stop_behind, stop_iters>>
    /\ RtlOnly

\* rtlsdr::open(0) failed: is_running = false, enter the simulation loop.
OpenErr ==
    /\ prod_pc = "open"
    /\ source # "ok"
    /\ prod_pc' = "sim_check"
    /\ mode' = "sim"
    /\ is_running' = FALSE
    /\ UNCHANGED <<source, samples, cmd, sample_q, control_q, sample_tx_alive,
                   ctrl_alive, dev_freq, dev_rate, next_seq, recv_seq, got,
                   current_samples>>
    /\ UNCHANGED <<stop_behind, stop_iters>>
    /\ RtlOnly

\* The thread function returns: sample_tx and control_rx are dropped.
ThreadExit ==
    /\ prod_pc' = "done"
    /\ sample_tx_alive' = FALSE
    /\ control_q' = <<>>

\* The thread is at the top of its loop: one more iteration since Stop was
\* sent, if it was.
IterationBegins ==
    /\ stop_iters' = IF stop_behind >= 0 THEN Min(stop_iters + 1, MaxCmds + 2)
                                         ELSE stop_iters
    /\ UNCHANGED stop_behind

\* Simulation loop, lines 68-72: take at most one command; Stop breaks.
SimCheck ==
    /\ prod_pc = "sim_check"
    /\ IF control_q # <<>>
         THEN /\ cmd' = Head(control_q)
              /\ IF Head(control_q).op = "Stop"
                   THEN ThreadExit
                   ELSE /\ prod_pc' = "sim_send"
                        /\ control_q' = Tail(control_q)
                        /\ UNCHANGED sample_tx_alive
         ELSE /\ prod_pc' = "sim_send"
              /\ UNCHANGED <<cmd, control_q, sample_tx_alive>>
    /\ UNCHANGED <<mode, source, samples, sample_q, ctrl_alive, is_running,
                   dev_freq, dev_rate, next_seq, recv_seq, got, current_samples>>
    /\ IterationBegins
    /\ RtlOnly

\* Mutant of SendSamples: a send that gives up when a block is already
\* queued (a try_send on a one-slot channel).
SendSamplesOrDrop(blk) ==
    IF ctrl_alive /\ sample_q = <<>> THEN sample_q' = Append(sample_q, blk)
                                     ELSE sample_q' = sample_q

\* sample_tx.send(blk).ok(): the channel is unbounded, so the send never
\* waits; with the receiver dropped it fails and the block is discarded.
SendSamples(blk) ==
    IF ctrl_alive THEN sample_q' = Append(sample_q, blk)
                  ELSE sample_q' = sample_q

\* Simulation loop, lines 75-77: generate a block, send it, sleep.
SimSend ==
    /\ prod_pc = "sim_send"
    /\ ctrl_alive => Len(sample_q) < MaxQueue
    /\ SendSamples([seq |-> next_seq, len |-> SimLen])
    /\ samples' = [seq |-> next_seq, len |-> SimLen]
    /\ next_seq' = (next_seq + 1) % SeqMod
    /\ prod_pc' = "sim_check"
    /\ UNCHANGED <<mode, source, cmd, control_q, sample_tx_alive, ctrl_alive,
                   is_running, dev_freq, dev_rate, recv_seq, got, current_samples>>
    /\ UNCHANGED <<stop_behind, stop_iters>>
    /\ RtlOnly

\* The device loop acting on a Stop anywhere in the queue, ahead of the
\* commands sent before it.
DevCheckStopFirst ==
    /\ prod_pc = "check"
    /\ IF \E i \in 1..Len(control_q) : control_q[i].op = "Stop"
         THEN /\ cmd' = Stop
              /\ is_running' = FALSE
              /\ ThreadExit
              /\ UNCHANGED <<dev_freq, dev_rate>>
         ELSE IF control_q # <<>>
         THEN LET c == Head(control_q) IN
              /\ cmd' = c
              /\ prod_pc' = "read"
              /\ control_q' = Tail(control_q)
              /\ dev_freq' = IF c.op = "SetFrequency" THEN c.arg ELSE dev_freq
              /\ dev_rate' = IF c.op = "SetSampleRate" THEN c.arg ELSE dev_rate
              /\ UNCHANGED <<is_running, sample_tx_alive>>
         ELSE /\ prod_pc' = "read"
              /\ UNCHANGED <<cmd, control_q, is_running, sample_tx_alive,
                             dev_freq, dev_rate>>
    /\ UNCHANGED <<mode, source, samples, sample_q, ctrl_alive, next_seq,
                   recv_seq, got, current_samples>>
    /\ IterationBegins
    /\ RtlOnly

\* Device loop, lines 104-117: take at most one command and act on it.
DevCheck ==
    /\ prod_pc = "check"
    /\ IF control_q # <<>>
         THEN LET c == Head(control_q) IN
              /\ cmd' = c
              /\ IF c.op = "Stop"
                   THEN /\ is_running' = FALSE
                        /\ ThreadExit
                        /\ UNCHANGED <<dev_freq, dev_rate>>
                   ELSE /\ prod_pc' = "read"
                        /\ control_q' = Tail(control_q)
                        /\ dev_freq' = IF c.op = "SetFrequency" THEN c.arg ELSE dev_freq
                        /\ dev_rate' = IF c.op = "SetSampleRate" THEN c.arg ELSE dev_rate
                        /\ UNCHANGED <<is_running, sample_tx_alive>>
         ELSE /\ prod_pc' = "read"
              /\ UNCHANGED <<cmd, control_q, is_running, sample_tx_alive,
                             dev_freq, dev_rate>>
    /\ UNCHANGED <<mode, source, samples, sample_q, ctrl_alive, next_seq,
                   recv_seq, got, current_samples>>
    /\ IterationBegins
    /\ RtlOnly

\* Device loop, lines 120-122: read_sync returned a buffer; convert it.
DevReadOk ==
    /\ prod_pc = "read"
    /\ source = "ok"
    /\ \E n \in ReadLens :
          samples' = [seq |-> next_seq, len |-> ConvertIqLen(n)]
    /\ next_seq' = (next_seq + 1) % SeqMod
    /\ prod_pc' = "send"
    /\ UNCHANGED <<mode, source, cmd, sample_q, control_q, sample_tx_alive,
                   ctrl_alive, is_running, dev_freq, dev_rate, recv_seq, got,
                   current_samples>>
    /\ UNCHANGED <<stop_behind, stop_iters>>
    /\ RtlOnly

\* Mutant of DevReadErr: a failed read breaks out of the loop.
DevReadErrBreaks ==
    /\ prod_pc = "read"
    /\ ThreadExit
    /\ UNCHANGED <<mode, source, samples, cmd, sample_q,
                   ctrl_alive, is_running, dev_freq, dev_rate,
                   next_seq, recv_seq, got, current_samples>>
    /\ UNCHANGED <<stop_behind, stop_iters>>
    /\ RtlOnly

\* Device loop, lines 125-128: read_sync failed; log, sleep, next iteration.
DevReadErr ==
    /\ prod_pc = "read"
    /\ prod_pc' = "check"
    /\ UNCHANGED <<mode, source, samples, cmd, sample_q, control_q,
                   sample_tx_alive, ctrl_alive, is_running, dev_freq, dev_rate,
                   next_seq, recv_seq, got, current_samples>>
    /\ UNCHANGED <<stop_behind, stop_iters>>
    /\ RtlOnly

\* Device loop, line 123: send the converted block.
DevSend ==
    /\ prod_pc = "send"
    /\ ctrl_alive => Len(sample_q) < MaxQueue
    /\ SendSamples(samples)
    /\ prod_pc' = "check"
    /\ UNCHANGED <<mode, source, samples, cmd, control_q, sample_tx_alive,
                   ctrl_alive, is_running, dev_freq, dev_rate, next_seq,
                   recv_seq, got, current_samples>>
    /\ UNCHANGED <<stop_behind, stop_iters>>
    /\ RtlOnly

\* The device is unplugged: every later read_sync fails.
SourceLoss ==
    /\ source = "ok"
    /\ prod_pc \notin {"open", "done"}
    /\ source' = "lost"
    /\ UNCHANGED <<prod_pc, mode, samples, cmd, sample_q, control_q,
                   sample_tx_alive, ctrl_alive, is_running, dev_freq, dev_rate,
                   next_seq, recv_seq, got, current_samples>>
    /\ UNCHANGED <<stop_behind, stop_iters>>
    /\ RtlOnly

\* Mutant of GetSamples: a blocking recv, which waits for a block while the
\* queue is empty.
GetSamplesBlocking ==
    /\ ctrl_alive
    /\ sample_q # <<>>
    /\ got' = "Some"
    /\ current_samples' = Head(sample_q)
    /\ sample_q' = Tail(sample_q)
    /\ recv_seq' = (Head(sample_q).seq + 1) % SeqMod
    /\ UNCHANGED <<prod_pc, mode, source, samples, cmd, control_q,
                   sample_tx_alive, ctrl_alive, is_running, dev_freq, dev_rate,
                   next_seq>>
    /\ UNCHANGED <<stop_behind, stop_iters>>
    /\ RtlOnly

\* get_samples (called by process_samples): sample_rx.try_recv().ok().
GetSamples ==
    /\ ctrl_alive
    /\ IF sample_q # <<>>
         THEN /\ got' = "Some"
              /\ current_samples' = Head(sample_q)
              /\ sample_q' = Tail(sample_q)
              /\ recv_seq' = (Head(sample_q).seq + 1) % SeqMod
         ELSE /\ got' = "None"
              /\ UNCHANGED <<current_samples, sample_q, recv_seq>>
    /\ UNCHANGED <<prod_pc, mode, source, samples, cmd, control_q,
                   sample_tx_alive, ctrl_alive, is_running, dev_freq, dev_rate,
                   next_seq>>
    /\ UNCHANGED <<stop_behind, stop_iters>>
    /\ RtlOnly

\* control_tx.send(c).ok(): fails, and queues nothing, once the thread has
\* dropped control_rx.
SendControl(c) ==
    IF prod_pc # "done" THEN control_q' = Append(control_q, c)
                        ELSE control_q' = control_q

\* set_frequency / set_sample_rate.
SetCommand ==
    /\ ctrl_alive
    /\ Len(control_q) < MaxCmds
    /\ \E c \in {SetFrequency(f) : f \in FreqArgs} \cup {SetSampleRate(r) : r \in RateArgs} :
          SendControl(c)
    /\ UNCHANGED <<prod_pc, mode, source, samples, cmd, sample_q,
                   sample_tx_alive, ctrl_alive, is_running, dev_freq, dev_rate,
                   next_seq, recv_seq, got, current_samples>>
    /\ UNCHANGED <<stop_behind, stop_iters>>
    /\ RtlOnly

\* Drop for RTLSDRController: send Stop, then the fields (sample_rx,
\* control_tx) are dropped; blocks still queued can no longer be received.
DropController ==
    /\ ctrl_alive
    /\ SendControl(Stop)
    /\ ctrl_alive' = FALSE
    /\ sample_q' = <<>>
    /\ stop_behind' = IF prod_pc # "done" THEN Len(control_q) ELSE -1
    /\ stop_iters' = 0
    /\ UNCHANGED <<prod_pc, mode, source, samples, cmd, sample_tx_alive,
                   is_running, dev_freq, dev_rate, next_seq, recv_seq, got,
                   current_samples>>
    /\ RtlOnly

Producer == OpenOk \/ OpenErr \/ SimCheck \/ SimSend \/ DevCheck
            \/ DevReadOk \/ DevReadErr \/ DevSend

RtlNext == Producer \/ SourceLoss \/ GetSamples \/ SetCommand \/ DropController

----------------------------------------------------------------------------
(* sdr.rs *)

\* Capacity of the bounded channel behind `out`.  The channel is created by
\* the caller of run_sdr_loop, which the repository does not contain; the
\* doc comment of run_sdr_loop (line 20) and the spec call it bounded.
OutCapacity == 2
\* Byte counts the driver hands to the read_async callback: a buffer with
\* an incomplete trailing pair, and a small even one.
DataLens == {5, 8}

\* Largest i32, the type of cfg.gain_db (line 12).
I32Max == 2147483647
\* Values of cfg.gain_db: automatic gain, two manual gains, and two whose
\* tenfold exceeds i32 (the smallest such and the largest i32).
GainArgs == {-1, 0, 40, I32Max \div 10 + 1, I32Max}

\* Line 37, `cfg.gain_db * 10` on i32, reached for a gain that is not
\* negative: the product overflows above I32Max / 10.  A build with
\* overflow checks (the dev profile) panics there; a build without them
\* (the release profile) wraps, and the result of set_tuner_gain is ignored.
GainMulOverflows(g) == g >= 0 /\ g > I32Max \div 10

\* Lines 49-60: chunks(2) + filter_map drops an incomplete trailing chunk.
IqSamplesLen(nbytes) == nbytes \div 2

SdrInit ==
    /\ sdr_pc = "open"
    /\ sdr_ret = "none"
    /\ cfg_gain_db \in GainArgs
    /\ out_q = <<>>
    /\ out_tx_alive = TRUE
    /\ out_rx_alive = TRUE
    /\ sdr_seq = 0
    /\ out_recv = 0

SdrIdle ==
    /\ sdr_pc = "idle"
    /\ sdr_ret = "none"
    /\ cfg_gain_db = -1
    /\ out_q = <<>>
    /\ out_tx_alive = FALSE
    /\ out_rx_alive = FALSE
    /\ sdr_seq = 0
    /\ out_recv = 0

\* `?` on an Err: run_sdr_loop returns Err and `out` is dropped.
SdrReturn(r) ==
    /\ sdr_pc' = "done"
    /\ sdr_ret' = r
    /\ out_tx_alive' = FALSE

\* Lines 23-24: rtlsdr_mt::open.
SdrOpen ==
    /\ sdr_pc = "open"
    /\ \/ /\ sdr_pc' = "config"
          /\ UNCHANGED <<sdr_ret, out_tx_alive>>
       \/ SdrReturn("Err")
    /\ UNCHANGED <<cfg_gain_db, out_q, out_rx_alive, sdr_seq, out_recv>>
    /\ SdrOnly

\* A panic unwinds run_sdr_loop: it ends without a return value and `out`
\* is dropped.
SdrPanic ==
    /\ sdr_pc' = "done"
    /\ sdr_ret' = "panic"
    /\ out_tx_alive' = FALSE

\* Lines 27-41: set_sample_rate, set_center_freq, gain, reset_buffer.  The
\* device may fail set_sample_rate, set_center_freq or reset_buffer (Err
\* through `?`); between them an overflowing gain product panics in a build
\* with overflow checks and wraps, going on, in one without.
SdrConfigure ==
    /\ sdr_pc = "config"
    /\ \/ /\ sdr_pc' = "stream"
          /\ UNCHANGED <<sdr_ret, out_tx_alive>>
       \/ SdrReturn("Err")
       \/ /\ GainMulOverflows(cfg_gain_db)
          /\ SdrPanic
    /\ UNCHANGED <<cfg_gain_db, out_q, out_rx_alive, sdr_seq, out_recv>>
    /\ SdrOnly

\* Line 63: `let _ = out.send(iq_samples)`.  On a bounded channel the send
\* waits while the channel is full; with the receiver gone it fails at once
\* and the result is ignored.
OutSend(blk) ==
    /\ out_rx_alive => Len(out_q) < OutCapacity
    /\ out_q' = IF out_rx_alive THEN Append(out_q, blk) ELSE out_q

\* Lines 47-64: one invocation of the read_async callback.
SdrCallback ==
    /\ sdr_pc = "stream"
    /\ \E n \in DataLens : OutSend([seq |-> sdr_seq, len |-> IqSamplesLen(n)])
    /\ sdr_seq' = (sdr_seq + 1) % SeqMod
    /\ UNCHANGED <<sdr_pc, sdr_ret, cfg_gain_db, out_tx_alive, out_rx_alive, out_recv>>
    /\ SdrOnly

\* Lines 65-68: read_async itself returns (the device failed or the read
\* ended): Err through `?`, or Ok(()).
SdrReadAsyncReturns ==
    /\ sdr_pc = "stream"
    /\ \E r \in {"Ok", "Err"} : SdrReturn(r)
    /\ UNCHANGED <<cfg_gain_db, out_q, out_rx_alive, sdr_seq, out_recv>>
    /\ SdrOnly

\* The receiving side takes the next block (a blocking recv).
OutRecv ==
    /\ out_rx_alive
    /\ out_q # <<>>
    /\ out_recv' = (Head(out_q).seq + 1) % SeqMod
    /\ out_q' = Tail(out_q)
    /\ UNCHANGED <<sdr_pc, sdr_ret, cfg_gain_db, out_tx_alive, out_rx_alive, sdr_seq>>
    /\ SdrOnly

\* The receiving side goes away: the receiver is dropped.
OutRxDrop ==
    /\ out_rx_alive
    /\ out_rx_alive' = FALSE
    /\ out_q' = <<>>
    /\ UNCHANGED <<sdr_pc, sdr_ret, cfg_gain_db, out_tx_alive, sdr_seq, out_recv>>
    /\ SdrOnly

SdrNext == SdrOpen \/ SdrConfigure \/ SdrCallback \/ SdrReadAsyncReturns
           \/ OutRecv \/ OutRxDrop

----------------------------------------------------------------------------
(* hc12_decoder.rs *)

\* Largest spreading factor argument the model passes below the width of
\* usize (the argument is a u8; from 16 on `1u16 << sf` in fft_peak_detect
\* overflows too, which the model leaves out).
MaxSFArg == 14
\* Width of usize, the type of fft_size, on a 64-bit target.
UsizeBits == 64
\* Arguments of new and set_spreading_factor: 0..MaxSFArg, and the smallest
\* one for which `1 << spreading_factor` overflows usize.
SFArgs == (0..MaxSFArg) \cup {UsizeBits}
\* main.rs line 254.
BandwidthArgs == {125000, 250000}

U16 == 65536

\* v as w bits, most significant first.
Bits(v, w) == [i \in 1..w |-> (v \div (2 ^ (w - i))) % 2]

RECURSIVE BitsToNat(_)
BitsToNat(bs) ==
    IF bs = <<>> THEN 0
    ELSE 2 * BitsToNat(SubSeq(bs, 1, Len(bs) - 1)) + bs[Len(bs)]

Zeros(n) == [i \in 1..n |-> 0]

\* Line 19, `1 << spreading_factor` on usize: the shift overflows when the
\* amount is not below the width of usize.  A build with overflow checks
\* (the dev profile) panics there; a build without them (the release
\* profile) shifts by the amount modulo the width.
ShlOverflows(sf) == sf >= UsizeBits
WrappingShl(sf) == Pow2(sf % UsizeBits)

\* HC12Decoder::new, when it returns: no clamping; fft_size = 1 <<
\* spreading_factor.
New(sf, bw) ==
    [spreading_factor |-> sf, bandwidth |-> bw, fft_size |-> WrappingShl(sf)]

\* u8::clamp(7, 12).
Clamp(sf, lo, hi) == IF sf < lo THEN lo ELSE IF sf > hi THEN hi ELSE sf

\* A sample block.  The model carries of each sample its squared magnitude
\* and of each symbol window the bin its dechirped FFT peaks at:
\*   len   number of samples
\*   lo,hi samples lo <= i < hi (0-based) have norm_sqr 1, the others 0
\*   bins  for the k-th window extract_symbols takes, the peak bin of a
\*         window that carries energy
NormSqr(blk, i) == IF blk.lo <= i /\ i < blk.hi THEN 1 ELSE 0

\* Sum of norm_sqr over samples[from .. from + n - 1]; the energy profile is
\* a rectangle, so the sum is the length of the overlap.
WindowPower(blk, from, n) ==
    Max(0, Min(blk.hi, from + n) - Max(blk.lo, from))

\* detect_preamble, lines 61-69: the loop from `offset` on.
RECURSIVE PreambleScan(_, _, _, _, _)
PreambleScan(blk, window_size, offset, max_power, best_offset) ==
    IF offset >= Max(0, blk.len - window_size) THEN best_offset
    ELSE LET power == WindowPower(blk, offset, Min(window_size, blk.len - offset))
         IN  IF power > max_power
               THEN PreambleScan(blk, window_size, offset + window_size \div 4,
                                 power, offset)
               ELSE PreambleScan(blk, window_size, offset + window_size \div 4,
                                 max_power, best_offset)

\* detect_preamble; step_by(0) panics, reported as -1.
DetectPreamble(fsize, blk) ==
    IF fsize \div 4 = 0 THEN -1
    ELSE PreambleScan(blk, fsize, 0, 0, 0)

\* generate_downchirp: the reference downchirp has 1 << spreading_factor
\* elements.
GenerateDownchirpLen(sf) == Pow2(sf)

\* Mutant of FftPeakDetect: the bins are counted from 1 and the count is
\* returned unmasked.
FftPeakDetectOneBased(sf, blk, pos, bin) ==
    LET peak_bin == IF WindowPower(blk, pos, Pow2(sf)) = 0 THEN 0 ELSE bin
    IN  (peak_bin + 1) % U16

\* fft_peak_detect: the peak bin of a window without energy is 0 (no
\* magnitude exceeds 0.0); the result is the bin masked to sf bits.
FftPeakDetect(sf, blk, pos, bin) ==
    LET peak_bin == IF WindowPower(blk, pos, Pow2(sf)) = 0 THEN 0 ELSE bin
        mask == Pow2(sf) - 1
    IN  (peak_bin % U16) % (mask + 1)

\* The loop of extract_symbols with the condition `pos + symbol_size <
\* samples.len()`.
RECURSIVE ExtractLoopStrict(_, _, _, _)
ExtractLoopStrict(sf, blk, pos, k) ==
    IF pos + Pow2(sf) < blk.len
      THEN <<[pos |-> pos,
              symbol |-> FftPeakDetect(sf, blk, pos, blk.bins[k + 1])]>>
           \o ExtractLoopStrict(sf, blk, pos + Pow2(sf), k + 1)
      ELSE <<>>

\* extract_symbols, lines 82-104: the loop from `pos` on, k windows taken;
\* of each window samples[pos .. pos + symbol_size] its start and the
\* symbol pushed for it.
RECURSIVE ExtractLoop(_, _, _, _)
ExtractLoop(sf, blk, pos, k) ==
    IF pos + Pow2(sf) <= blk.len
      THEN <<[pos |-> pos,
              symbol |-> FftPeakDetect(sf, blk, pos, blk.bins[k + 1])]>>
           \o ExtractLoop(sf, blk, pos + Pow2(sf), k + 1)
      ELSE <<>>

\* extract_symbols: the returned symbols.
ExtractSymbols(sf, blk, offset) ==
    LET taken == ExtractLoop(sf, blk, offset, 0)
    IN  [k \in 1..Len(taken) |-> taken[k].symbol]

\* extract_symbols: the start of each window it read.
ExtractWindows(sf, blk, offset) ==
    LET taken == ExtractLoop(sf, blk, offset, 0)
    IN  [k \in 1..Len(taken) |-> taken[k].pos]

\* pack_symbols_to_bytes, lines 183-194.  bit_buffer is a u32, kept as its
\* 32 bits (most significant first); bit_count is a u8.
RECURSIVE PackDrain(_, _, _)
PackDrain(bytes, bit_buf, bit_count) ==
    IF bit_count >= 8
      THEN LET bc == bit_count - 8
               byte == BitsToNat(SubSeq(bit_buf, 32 - bc - 7, 32 - bc))
           IN  PackDrain(Append(bytes, byte), bit_buf, bc)
      ELSE [bytes |-> bytes, bit_count |-> bit_count]

RECURSIVE PackLoop(_, _, _, _, _)
PackLoop(symbols, sf, bytes, bit_buf, bit_count) ==
    IF symbols = <<>>
      THEN [bytes |-> bytes, bit_buffer |-> bit_buf, bit_count |-> bit_count]
      ELSE LET mask == Pow2(sf) - 1
               buf == SubSeq(bit_buf, sf + 1, 32)
                      \o Bits(Head(symbols) % (mask + 1), sf)
               d == PackDrain(bytes, buf, bit_count + sf)
           IN  PackLoop(Tail(symbols), sf, d.bytes, buf, d.bit_count)

\* Mutant of PackSymbolsToBytes: the final partial group is emitted without
\* the left shift that pads it.
PackSymbolsToBytesNoPad(symbols, sf) ==
    LET r == PackLoop(symbols, sf, <<>>, Zeros(32), 0)
    IN  IF r.bit_count > 0
          THEN Append(r.bytes,
                      BitsToNat(SubSeq(r.bit_buffer, 32 - r.bit_count + 1, 32)))
          ELSE r.bytes

\* pack_symbols_to_bytes.
PackSymbolsToBytes(symbols, sf) ==
    LET r == PackLoop(symbols, sf, <<>>, Zeros(32), 0)
    IN  IF r.bit_count > 0
          THEN Append(r.bytes,
                      BitsToNat(SubSeq(r.bit_buffer, 32 - r.bit_count + 1, 32)
                                \o Zeros(8 - r.bit_count)))
          ELSE r.bytes

\* Mutant of SymbolsToBytes: every supported factor above 7 takes the low
\* 8 bits.
SymbolsToBytesLow8(sf, symbols) ==
    IF sf = 7 THEN PackSymbolsToBytes(symbols, 7)
    ELSE IF sf \in 8..12 THEN [i \in 1..Len(symbols) |-> symbols[i] % 256]
    ELSE <<>>

\* symbols_to_bytes.
SymbolsToBytes(sf, symbols) ==
    IF sf = 7 THEN PackSymbolsToBytes(symbols, 7)
    ELSE IF sf = 8 THEN [i \in 1..Len(symbols) |-> symbols[i] % 256]
    ELSE IF sf \in 9..12
      THEN [i \in 1..Len(symbols) |-> (symbols[i] \div Pow2(sf - 8)) % 256]
    ELSE <<>>

\* symbols_to_bytes, line 170: the eprintln of the unsupported branch.
LogsUnsupported(sf) == sf \notin 7..12

\* What a call returned and, of a decode that ran, the windows
\* extract_symbols read and the sizes it worked with: the window of detect_preamble, the symbol window and the downchirp
\* of extract_symbols, the transform of fft_peak_detect.
NoResult == [status |-> "none", symbols |-> <<>>, bytes |-> <<>>,
             offset |-> 0, windows |-> <<>>, stderr |-> FALSE,
             window_size |-> 0, symbol_size |-> 0, downchirp_len |-> 0,
             fft_len |-> 0]

\* Mutant of DecodeEmpty: the rejected call resets the decoder to the
\* default spreading factor.
DecodeEmptyResetting(dec) ==
    [dec |-> [dec EXCEPT !.spreading_factor = 7, !.fft_size = Pow2(7)],
     res |-> [NoResult EXCEPT !.status = "Err"]]

\* decode, lines 30-32: Err("No samples provided").
DecodeEmpty(dec) ==
    [dec |-> dec, res |-> [NoResult EXCEPT !.status = "Err"]]

\* HC12Decoder::decode: the decoder after the call and what the call
\* returns.  estimate_snr computes a display value from the samples alone
\* and is left out of the result.
Decode(dec, blk) ==
    IF blk.len = 0
      THEN DecodeEmpty(dec)
      ELSE LET sync_offset == DetectPreamble(dec.fft_size, blk) IN
           IF sync_offset < 0
             THEN [dec |-> dec, res |-> [NoResult EXCEPT !.status = "panic"]]
             ELSE LET symbols == ExtractSymbols(dec.spreading_factor, blk, sync_offset)
                  IN  [dec |-> dec,
                       res |-> [status |-> "Ok",
                                symbols |-> symbols,
                                bytes |-> SymbolsToBytes(dec.spreading_factor, symbols),
                                offset |-> sync_offset,
                                windows |->
                                    ExtractWindows(dec.spreading_factor, blk,
                                                   sync_offset),
                                stderr |-> LogsUnsupported(dec.spreading_factor),
                                window_size |-> dec.fft_size,
                                symbol_size |-> Pow2(dec.spreading_factor),
                                downchirp_len |->
                                    GenerateDownchirpLen(dec.spreading_factor),
                                fft_len |-> dec.fft_size]]

Decoder == [spreading_factor |-> spreading_factor, bandwidth |-> bandwidth,
            fft_size |-> fft_size]

SetDecoder(dec) ==
    /\ spreading_factor' = dec.spreading_factor
    /\ bandwidth' = dec.bandwidth
    /\ fft_size' = dec.fft_size

\* Bins the model lets the FFT of a window that carries energy peak at.
PeakChoices(n) == {1 % n, n - 1}

\* Blocks passed to decode by a decoder whose window size is n: empty,
\* shorter than a symbol, one symbol, up to two symbols and a quarter;
\* silent, or with a burst of energy one symbol long at 0, at a quarter
\* symbol or at one symbol.
BlockLens(n) == {0, 1, n - 1, n, n + 1, 2 * n, 2 * n + n \div 4}
Bursts(n) == {<<0, 0>>, <<0, n>>, <<n \div 4, n \div 4 + n>>, <<n, 2 * n>>}
BlockArgs(n) ==
    { [len |-> l, lo |-> Min(b[1], l), hi |-> Min(b[2], l), bins |-> <<b1, b2>>] :
        l \in BlockLens(n), b \in Bursts(n),
        b1 \in PeakChoices(n), b2 \in PeakChoices(n) }

\* The decoder HC12App::new builds (main.rs line 95).
DecInit ==
    /\ spreading_factor = 7
    /\ bandwidth = 125000
    /\ fft_size = Pow2(7)
    /\ dec_call = [op |-> "new", sf |-> 7, bw |-> 125000]
    /\ dec_result = NoResult

DecIdle ==
    /\ spreading_factor = 0
    /\ bandwidth = 0
    /\ fft_size = 0
    /\ dec_call = [op |-> "none"]
    /\ dec_result = NoResult

Panicked == dec_result.status = "panic"

\* HC12Decoder::new(sf, bw) replaces the decoder (main.rs line 256), or
\* panics on the overflowing shift in a build that checks for it.
NewDecoder ==
    /\ ~Panicked
    /\ \E sf \in SFArgs, bw \in BandwidthArgs :
          /\ dec_call' = [op |-> "new", sf |-> sf, bw |-> bw]
          /\ \/ /\ SetDecoder(New(sf, bw))
                /\ dec_result' = NoResult
             \/ /\ ShlOverflows(sf)
                /\ UNCHANGED <<spreading_factor, bandwidth, fft_size>>
                /\ dec_result' = [NoResult EXCEPT !.status = "panic"]
    /\ DecOnly

\* set_spreading_factor.
SpreadingFactorSet(dec, sf) ==
    LET c == Clamp(sf, 7, 12)
    IN  [dec EXCEPT !.spreading_factor = c, !.fft_size = Pow2(c)]

SetSpreadingFactor ==
    /\ ~Panicked
    /\ \E sf \in SFArgs :
          /\ SetDecoder(SpreadingFactorSet(Decoder, sf))
          /\ dec_call' = [op |-> "set_spreading_factor", sf |-> sf]
    /\ dec_result' = NoResult
    /\ DecOnly

\* set_bandwidth.
SetBandwidth ==
    /\ ~Panicked
    /\ \E bw \in BandwidthArgs :
          /\ SetDecoder([Decoder EXCEPT !.bandwidth = bw])
          /\ dec_call' = [op |-> "set_bandwidth", bw |-> bw]
    /\ dec_result' = NoResult
    /\ DecOnly

\* decode(samples).
DecodeCall ==
    /\ ~Panicked
    /\ \E blk \in BlockArgs(fft_size) :
          LET r == Decode(Decoder, blk) IN
          /\ SetDecoder(r.dec)
          /\ dec_call' = [op |-> "decode", blk |-> blk]
          /\ dec_result' = r.res
    /\ DecOnly

DecNext == NewDecoder \/ SetSpreadingFactor \/ SetBandwidth \/ DecodeCall

----------------------------------------------------------------------------
(* symbols_to_bytes as a function (the unit tests of hc12_decoder.rs) *)

\* Longest symbol sequence drawn from SymVals.
MaxSymbols == 8
\* Symbol values (u16): with and without bits above the 7th, 8th and 12th.
SymVals == {1, 1040, 62883}
\* The symbol vectors of the unit tests, lines 242, 252 and 263.
TestSymbols == { <<127, 0, 85, 42, 127, 0, 85, 42>>,
                 <<65, 66, 67>>,
                 <<1040, 1056, 1072>> }

SymInputs == TestSymbols \cup
             UNION { [1..n -> SymVals] : n \in 0..MaxSymbols }

SymInit ==
    /\ \E sf \in SFArgs :
          /\ spreading_factor = sf
          /\ bandwidth = 125000
          /\ fft_size = New(sf, 125000).fft_size
    /\ dec_call = [op |-> "none"]
    /\ dec_result = NoResult
    /\ sym_in \in SymInputs
    /\ sym_out = [called |-> FALSE, bytes |-> <<>>]

SymIdle ==
    /\ sym_in = <<>>
    /\ sym_out = [called |-> FALSE, bytes |-> <<>>]

SymbolsToBytesCall ==
    /\ ~sym_out.called
    /\ sym_out' = [called |-> TRUE, bytes |-> SymbolsToBytes(spreading_factor, sym_in)]
    /\ UNCHANGED <<sym_in, decVars>>
    /\ SymOnly

----------------------------------------------------------------------------
(* demodulator.rs: decode_bytes *)

\* Longest byte sequence drawn from ByteVals.
MaxBytes == 3
ByteVals == {0, 1, 65, 128, 165, 255}
ByteInputs == { <<b>> : b \in 0..255 } \cup
              UNION { [1..n -> ByteVals] : n \in 0..MaxBytes }

None == [some |-> FALSE, val |-> <<>>]
Some(v) == [some |-> TRUE, val |-> v]

\* Mutant of AssembleByte: most significant bit first.
AssembleByteMsbFirst(buf) ==
    LET bit(i) == IF buf[i + 1] THEN 2 ^ (7 - i) ELSE 0
    IN  bit(0) + bit(1) + bit(2) + bit(3) + bit(4) + bit(5) + bit(6) + bit(7)

\* Lines 178-182: the first 8 buffered bits, bit i to value bit i.
AssembleByte(buf) ==
    LET bit(i) == IF buf[i + 1] THEN 2 ^ i ELSE 0
    IN  bit(0) + bit(1) + bit(2) + bit(3) + bit(4) + bit(5) + bit(6) + bit(7)

\* The loop of lines 174-188 as an `if`: at most one byte per call.
DrainBytesOnce(buf, bytes) ==
    IF Len(buf) >= 8
      THEN [buf |-> SubSeq(buf, 9, Len(buf)),
            bytes |-> Append(bytes, AssembleByte(buf))]
      ELSE [buf |-> buf, bytes |-> bytes]

\* Lines 174-188: the while loop.
RECURSIVE DrainBytes(_, _)
DrainBytes(buf, bytes) ==
    IF Len(buf) >= 8
      THEN DrainBytes(SubSeq(buf, 9, Len(buf)), Append(bytes, AssembleByte(buf)))
      ELSE [buf |-> buf, bytes |-> bytes]

\* decode_bytes without lines 190-194: the bytes are always returned.
DecodeBytesAlwaysSome(buf, bits) ==
    LET d == DrainBytes(buf \o bits, <<>>)
    IN  [buf |-> d.buf, ret |-> Some(d.bytes)]

\* decode_bytes: the byte_buffer after the call and the returned value.
DecodeBytes(buf, bits) ==
    LET d == DrainBytes(buf \o bits, <<>>)
    IN  [buf |-> d.buf,
         ret |-> IF d.bytes = <<>> THEN None ELSE Some(d.bytes)]

\* A byte as 8 bits, least significant first.
RECURSIVE ExpandLsbFirst(_)
ExpandLsbFirst(bytes) ==
    IF bytes = <<>> THEN <<>>
    ELSE [i \in 1..8 |-> (Head(bytes) \div (2 ^ (i - 1))) % 2 = 1]
         \o ExpandLsbFirst(Tail(bytes))

\* A fresh GfskDemodulator (new, line 51) and the bytes to send through it.
BytInit ==
    /\ byte_buffer = <<>>
    /\ db_bytes \in ByteInputs
    /\ db_ret = [called |-> FALSE, ret |-> None]
    /\ bits_in = <<>>
    /\ bytes_out = <<>>

BytIdle ==
    /\ byte_buffer = <<>>
    /\ db_bytes = <<>>
    /\ db_ret = [called |-> FALSE, ret |-> None]
    /\ bits_in = <<>>
    /\ bytes_out = <<>>

DecodeBytesCall ==
    /\ ~db_ret.called
    /\ LET r == DecodeBytes(byte_buffer, ExpandLsbFirst(db_bytes)) IN
          /\ byte_buffer' = r.buf
          /\ db_ret' = [called |-> TRUE, ret |-> r.ret]
          /\ bits_in' = bits_in \o ExpandLsbFirst(db_bytes)
          /\ bytes_out' = bytes_out \o r.ret.val
    /\ UNCHANGED db_bytes
    /\ BytOnly

\* Bits passed to decode_bytes over the life of one demodulator.
MaxStreamBits == 17
\* The bits of one call: none, or the first 3, 5, 8, 9 or 16 bits of two
\* bytes taken least significant bit first.
ChunkLens == {0, 3, 5, 8, 9, 16}
ChunkBytes == { <<165, 1>>, <<255, 128>>, <<0, 66>> }
BitChunks == { SubSeq(ExpandLsbFirst(b), 1, n) : b \in ChunkBytes, n \in ChunkLens }

\* decode_bytes(bits), called any number of times on one demodulator.
DecodeBytesStream ==
    /\ \E bits \in BitChunks :
          /\ Len(bits_in) + Len(bits) <= MaxStreamBits
          /\ LET r == DecodeBytes(byte_buffer, bits) IN
                /\ byte_buffer' = r.buf
                /\ db_ret' = [called |-> TRUE, ret |-> r.ret]
                /\ bits_in' = bits_in \o bits
                /\ bytes_out' = bytes_out \o r.ret.val
    /\ UNCHANGED db_bytes
    /\ BytOnly

----------------------------------------------------------------------------
(* demodulator.rs: GfskDemodulator *)

\* Numbers are held exactly, as integers in a unit: a phase in units of
\* pi / PhaseSteps, bit_position in units of 1 / bitrate (so that
\* samples_per_bit, sample_rate / bitrate, is sample_rate units), the
\* discriminator's output in units of sample_rate / (2 * PhaseSteps *
\* |deviation|) and the filter's output in units of 1 / filter_taps of
\* that.  The code computes in f32; the exact values agree with it on the
\* arguments and phases used here (GfskArgs, PhaseArgs), for which no f32
\* operation rounds a value the result depends on: the phase differences
\* are 0, +-pi and +-2 pi, the discriminator's outputs 0 and +-n for one
\* f32 value n, the filter's products 0 and +-p for one f32 value p, and
\* the bit periods are multiples of 1/2.
PhaseSteps == 4
PI == PhaseSteps
\* Longest block passed to process, and the samples processed in all.
MaxBlock == 2
MaxSamples == 5

Sgn(x) == IF x > 0 THEN 1 ELSE IF x < 0 THEN -1 ELSE 0
Abs(x) == IF x < 0 THEN -x ELSE x

\* Arguments of new: <<sample_rate, bitrate, deviation>>.  Bit periods of
\* 3/2, 5/2, 1, 1/2, 0, 40 and 100 samples; signal bandwidths that are
\* positive, zero and negative.  bitrate and deviation are not zero (a
\* division by zero gives infinities and NaN, which are left out).
GfskArgs == { <<3, 2, 1>>, <<5, 2, 1>>, <<4, 4, -3>>, <<1, 2, 1>>,
              <<0, 1, 1>>, <<40, 1, 2>>, <<200, 2, -1>> }

\* Mutant of FilterTaps: without the lower limit `.max(5.0)`.
FilterTapsNoFloor(sr, br, dev) ==
    LET signal_bandwidth == 2 * dev + br
    IN  IF signal_bandwidth = 0 THEN (IF sr = 0 THEN 0 ELSE 64)
        ELSE IF signal_bandwidth < 0 THEN 0
        ELSE Min(sr \div signal_bandwidth, 64)

\* new, lines 37-39.  signal_bandwidth = 2.0 * (deviation + bitrate / 2.0);
\* sample_rate / signal_bandwidth is +inf or NaN when the bandwidth is 0
\* and not positive when it is negative; f32::max(5.0) of NaN is 5.0 and
\* `as usize` saturates and truncates.
FilterTaps(sr, br, dev) ==
    LET signal_bandwidth == 2 * dev + br
    IN  IF signal_bandwidth = 0 THEN (IF sr = 0 THEN 5 ELSE 64)
        ELSE IF signal_bandwidth < 0 THEN 5
        ELSE Min(Max(sr \div signal_bandwidth, 5), 64)

\* GfskDemodulator::new.
GfskNew(sr, br, dev) ==
    LET filter_taps == FilterTaps(sr, br, dev)
    IN  [sample_rate |-> sr, bitrate |-> br, deviation |-> dev,
         prev_phase |-> 0,
         bit_buffer |-> <<>>,
         bit_position |-> 0,
         fm_demod_output |-> <<>>,
         filtered_output |-> <<>>,
         bit_decisions |-> <<>>,
         lpf_state |-> [i \in 1..filter_taps |-> 0],
         lpf_coeffs |-> [i \in 1..filter_taps |-> 1]]

\* Lines 94-96 and 97-99: the two while loops.
RECURSIVE UnwrapDown(_)
UnwrapDown(phase_diff) ==
    IF phase_diff > PI THEN UnwrapDown(phase_diff - 2 * PI) ELSE phase_diff
RECURSIVE UnwrapUp(_)
UnwrapUp(phase_diff) ==
    IF phase_diff < -PI THEN UnwrapUp(phase_diff + 2 * PI) ELSE phase_diff

\* Lines 91-99: phase - prev_phase, unwrapped.
PhaseDiff(phase, prev) == UnwrapUp(UnwrapDown(phase - prev))

\* Lines 102-107: phase_diff * sample_rate / (2 pi) / deviation, in its unit.
Normalized(dm, phase_diff) ==
    phase_diff * Sgn(dm.sample_rate) * Sgn(dm.deviation)

\* fm_discriminator.  A sample is given by its phase, atan2(im, re).
RECURSIVE FmDiscriminator(_, _)
FmDiscriminator(dm, iq_samples) ==
    IF iq_samples = <<>>
      THEN [dm |-> dm, output |-> <<>>, diffs |-> <<>>]
      ELSE LET phase == Head(iq_samples)
               phase_diff == PhaseDiff(phase, dm.prev_phase)
               rest == FmDiscriminator([dm EXCEPT !.prev_phase = phase],
                                       Tail(iq_samples))
           IN  [dm |-> rest.dm,
                output |-> <<Normalized(dm, phase_diff)>> \o rest.output,
                diffs |-> <<phase_diff>> \o rest.diffs]

\* Lines 127-130: the sum of the products of the zipped state and
\* coefficients.
RECURSIVE Convolution(_, _)
Convolution(state, coeffs) ==
    IF state = <<>> \/ coeffs = <<>> THEN 0
    ELSE Head(state) * Head(coeffs) + Convolution(Tail(state), Tail(coeffs))

\* Lines 123-124: rotate_right(1), then the sample into slot 0.
ShiftIn(state, sample) == <<sample>> \o SubSeq(state, 1, Len(state) - 1)

RECURSIVE LowPassLoop(_, _)
LowPassLoop(dm, input) ==
    IF input = <<>>
      THEN [dm |-> dm, output |-> <<>>]
      ELSE LET state == ShiftIn(dm.lpf_state, Head(input))
               filtered == Convolution(state, dm.lpf_coeffs)
               rest == LowPassLoop([dm EXCEPT !.lpf_state = state], Tail(input))
           IN  [dm |-> rest.dm, output |-> <<filtered>> \o rest.output]

\* Mutant of LowPassFilter: no output for the sample that first enters the
\* ring (the filter's warm-up sample is skipped).
LowPassFilterSkipFirst(dm, input) ==
    LET r == LowPassLoop(dm, input)
    IN  [dm |-> r.dm,
         output |-> IF r.output = <<>> THEN <<>> ELSE Tail(r.output)]

\* low_pass_filter.
LowPassFilter(dm, input) == LowPassLoop(dm, input)

\* Mutant of RecoverStep: the bit buffer is not cleared when a bit is
\* emitted.
RecoverStepKeepsBuffer(r, sample) ==
    LET buf == Append(r.dm.bit_buffer, sample)
        pos == r.dm.bit_position + r.dm.bitrate
        t == r.consumed + 1
    IN  IF pos >= r.dm.sample_rate
          THEN LET mid_index == Min(Len(buf) \div 2, Len(buf) - 1)
                   bit_value == buf[mid_index + 1]
               IN  [dm |-> [r.dm EXCEPT !.bit_buffer = buf,
                                       !.bit_position = pos - r.dm.sample_rate],
                    bits |-> Append(r.bits, bit_value > 0),
                    consumed |-> t,
                    emitted |-> r.emitted + 1,
                    log |-> Append(r.log, [n |-> r.emitted + 1, t |-> t])]
          ELSE [r EXCEPT !.dm.bit_buffer = buf, !.dm.bit_position = pos,
                         !.consumed = t]

\* recover_bits with the decision `bit_value >= 0.0`.
RecoverStepZeroIsOne(r, sample) ==
    LET buf == Append(r.dm.bit_buffer, sample)
        pos == r.dm.bit_position + r.dm.bitrate
        t == r.consumed + 1
    IN  IF pos >= r.dm.sample_rate
          THEN LET mid_index == Min(Len(buf) \div 2, Len(buf) - 1)
                   bit_value == buf[mid_index + 1]
               IN  [dm |-> [r.dm EXCEPT !.bit_buffer = <<>>,
                                       !.bit_position = pos - r.dm.sample_rate],
                    bits |-> Append(r.bits, bit_value >= 0),
                    consumed |-> t,
                    emitted |-> r.emitted + 1,
                    log |-> Append(r.log, [n |-> r.emitted + 1, t |-> t])]
          ELSE [r EXCEPT !.dm.bit_buffer = buf, !.dm.bit_position = pos,
                         !.consumed = t]

\* recover_bits, lines 144-160: one iteration of the loop.  r carries the
\* demodulator, the bits of this call, and the counts of samples consumed
\* and bits emitted since new.
RecoverStep(r, sample) ==
    LET buf == Append(r.dm.bit_buffer, sample)
        pos == r.dm.bit_position + r.dm.bitrate
        t == r.consumed + 1
    IN  IF pos >= r.dm.sample_rate
          THEN LET mid_index == Min(Len(buf) \div 2, Len(buf) - 1)
                   bit_value == buf[mid_index + 1]
               IN  [dm |-> [r.dm EXCEPT !.bit_buffer = <<>>,
                                       !.bit_position = pos - r.dm.sample_rate],
                    bits |-> Append(r.bits, bit_value > 0),
                    consumed |-> t,
                    emitted |-> r.emitted + 1,
                    log |-> Append(r.log, [n |-> r.emitted + 1, t |-> t])]
          ELSE [r EXCEPT !.dm.bit_buffer = buf, !.dm.bit_position = pos,
                         !.consumed = t]

RECURSIVE RecoverLoop(_, _)
RecoverLoop(r, filtered) ==
    IF filtered = <<>> THEN r
    ELSE RecoverLoop(RecoverStep(r, Head(filtered)), Tail(filtered))

\* recover_bits.
RecoverBits(dm, filtered, t, n) ==
    RecoverLoop([dm |-> dm, bits |-> <<>>, consumed |-> t, emitted |-> n,
                 log |-> <<>>], filtered)

\* process with a discriminator that starts every block from phase 0.
ProcessFromZeroPhase(dm, iq_samples, t, n) ==
    LET fm == FmDiscriminator([dm EXCEPT !.prev_phase = 0], iq_samples)
        lp == LowPassFilter(fm.dm, fm.output)
        rb == RecoverBits(lp.dm, lp.output, t, n)
    IN  [dm |-> [rb.dm EXCEPT !.fm_demod_output = fm.output,
                              !.filtered_output = lp.output,
                              !.bit_decisions = rb.bits],
         bits |-> rb.bits,
         diffs |-> fm.diffs,
         consumed |-> rb.consumed,
         emitted |-> rb.emitted,
         log |-> rb.log]

\* process: the demodulator after the call, the returned bits, and what
\* the call went through.
Process(dm, iq_samples, t, n) ==
    LET fm == FmDiscriminator(dm, iq_samples)
        lp == LowPassFilter(fm.dm, fm.output)
        rb == RecoverBits(lp.dm, lp.output, t, n)
    IN  [dm |-> [rb.dm EXCEPT !.fm_demod_output = fm.output,
                              !.filtered_output = lp.output,
                              !.bit_decisions = rb.bits],
         bits |-> rb.bits,
         diffs |-> fm.diffs,
         consumed |-> rb.consumed,
         emitted |-> rb.emitted,
         log |-> rb.log]

Demod == [sample_rate |-> sample_rate, bitrate |-> bitrate,
          deviation |-> deviation, prev_phase |-> prev_phase,
          bit_buffer |-> bit_buffer, bit_position |-> bit_position,
          fm_demod_output |-> fm_demod_output,
          filtered_output |-> filtered_output,
          bit_decisions |-> bit_decisions,
          lpf_state |-> lpf_state, lpf_coeffs |-> lpf_coeffs]

DemodIs(dm) ==
    /\ sample_rate = dm.sample_rate
    /\ bitrate = dm.bitrate
    /\ deviation = dm.deviation
    /\ prev_phase = dm.prev_phase
    /\ bit_buffer = dm.bit_buffer
    /\ bit_position = dm.bit_position
    /\ fm_demod_output = dm.fm_demod_output
    /\ filtered_output = dm.filtered_output
    /\ bit_decisions = dm.bit_decisions
    /\ lpf_state = dm.lpf_state
    /\ lpf_coeffs = dm.lpf_coeffs

SetDemod(dm) ==
    /\ sample_rate' = dm.sample_rate
    /\ bitrate' = dm.bitrate
    /\ deviation' = dm.deviation
    /\ prev_phase' = dm.prev_phase
    /\ bit_buffer' = dm.bit_buffer
    /\ bit_position' = dm.bit_position
    /\ fm_demod_output' = dm.fm_demod_output
    /\ filtered_output' = dm.filtered_output
    /\ bit_decisions' = dm.bit_decisions
    /\ lpf_state' = dm.lpf_state
    /\ lpf_coeffs' = dm.lpf_coeffs

\* Phases of the samples passed to process, as atan2 returns them for the
\* samples (-1, -0.0), (1, 0.0) and (-1, 0.0): -pi, 0 and pi.  Their
\* differences, and the sums with 2 pi that unwrap them, are exact in f32.
PhaseArgs == {-PI, 0, PI}
IqBlocks == UNION { [1..n -> PhaseArgs] : n \in 0..MaxBlock }

\* A demodulator as new returns it.
GfskInit ==
    /\ \E a \in GfskArgs : DemodIs(GfskNew(a[1], a[2], a[3]))
    /\ phase_diffs = <<>>
    /\ consumed = 0
    /\ emitted = 0
    /\ emit_log = <<>>
    /\ all_iq = <<>>
    /\ all_filtered = <<>>
    /\ all_bits = <<>>
    /\ all_emit_at = <<>>

GfskIdle ==
    /\ DemodIs([sample_rate |-> 0, bitrate |-> 0, deviation |-> 0,
                prev_phase |-> 0, bit_buffer |-> <<>>, bit_position |-> 0,
                fm_demod_output |-> <<>>, filtered_output |-> <<>>,
                bit_decisions |-> <<>>, lpf_state |-> <<>>,
                lpf_coeffs |-> <<>>])
    /\ phase_diffs = <<>>
    /\ consumed = 0
    /\ emitted = 0
    /\ emit_log = <<>>
    /\ all_iq = <<>>
    /\ all_filtered = <<>>
    /\ all_bits = <<>>
    /\ all_emit_at = <<>>

\* process(iq_samples).
ProcessCall ==
    /\ \E iq_samples \in IqBlocks :
          /\ consumed + Len(iq_samples) <= MaxSamples
          /\ LET r == Process(Demod, iq_samples, consumed, emitted) IN
                /\ SetDemod(r.dm)
                /\ phase_diffs' = r.diffs
                /\ consumed' = r.consumed
                /\ emitted' = r.emitted
                /\ emit_log' = r.log
                /\ all_iq' = all_iq \o iq_samples
                /\ all_filtered' = all_filtered \o r.dm.filtered_output
                /\ all_bits' = all_bits \o r.bits
                /\ all_emit_at' = all_emit_at \o [i \in 1..Len(r.log) |-> r.log[i].t]
    /\ GfskOnly

----------------------------------------------------------------------------
(* Specifications *)

Init == RtlInit /\ SdrIdle /\ DecIdle /\ SymIdle /\ BytIdle /\ GfskIdle
Next == RtlNext
Spec == Init /\ [][Next]_vars

\* The producer thread is scheduled; the GUI keeps polling get_samples
\* while the controller lives (update() requests a repaint every frame).
FairSpec == Spec /\ WF_vars(Producer) /\ WF_vars(GetSamples)

SdrSpecInit == RtlIdle /\ SdrInit /\ DecIdle /\ SymIdle /\ BytIdle /\ GfskIdle
SdrSpec == SdrSpecInit /\ [][SdrNext]_vars
\* The driver keeps delivering buffers to the callback; the receiver keeps
\* receiving while it lives.
SdrFairSpec == SdrSpec /\ WF_vars(SdrCallback) /\ WF_vars(OutRecv)

DecoderInit == RtlIdle /\ SdrIdle /\ DecInit /\ SymIdle /\ BytIdle /\ GfskIdle
DecoderSpec == DecoderInit /\ [][DecNext]_vars

SymSpecInit == RtlIdle /\ SdrIdle /\ SymInit /\ BytIdle /\ GfskIdle
SymSpec == SymSpecInit /\ [][SymbolsToBytesCall]_vars

BytesInit == RtlIdle /\ SdrIdle /\ DecIdle /\ SymIdle /\ BytInit /\ GfskIdle
BytesSpec == BytesInit /\ [][DecodeBytesCall]_vars

StreamSpecInit == RtlIdle /\ SdrIdle /\ DecIdle /\ SymIdle /\ BytIdle /\ GfskIdle
StreamSpec == StreamSpecInit /\ [][DecodeBytesStream]_vars

GfskSpecInit == RtlIdle /\ SdrIdle /\ DecIdle /\ SymIdle /\ BytIdle /\ GfskInit
GfskSpec == GfskSpecInit /\ [][ProcessCall]_vars

----------------------------------------------------------------------------
(* Claims *)

\* C1.  The queue from the producer to the consumer is bounded: it never
\* holds more than a fixed capacity of blocks, a send on the full queue
\* waiting for the consumer.  rtlsdr.rs sets no capacity (unbounded(),
\* line 20); the claim is stated for the largest capacity below what the
\* model lets the channel hold.
C1_QueueCapacity == MaxQueue - 1
C1_QueueBounded == Len(sample_q) <= C1_QueueCapacity

\* The blocks produced and not yet received: the queue, then the block the
\* device loop has read and not yet sent.
InFlight == sample_q \o (IF prod_pc = "send" THEN <<samples>> ELSE <<>>)

\* C2.  Every block the producer emits is delivered to the consumer exactly
\* once and in the order produced: while the controller lives, the blocks
\* in flight are exactly those numbered from the one the consumer expects
\* next up to the one produced last, in order, and the block delivered
\* last is the one before them.
C2_FifoDelivery ==
    ctrl_alive =>
      /\ \A i \in 1..Len(InFlight) :
            InFlight[i].seq = (recv_seq + i - 1) % SeqMod
      /\ (recv_seq + Len(InFlight)) % SeqMod = next_seq
      /\ current_samples # NoBlock =>
            current_samples.seq = (recv_seq + SeqMod - 1) % SeqMod
\* Blocks were delivered while others wait, and the numbering has wrapped.
C2_Witness ==
    /\ ctrl_alive
    /\ got = "Some"
    /\ Len(sample_q) >= 2
    /\ next_seq < recv_seq

\* C3 as stated.  Once the source is lost (the device cannot be opened, or
\* reads fail for good) the producer loop eventually terminates and the
\* queue is closed.
C3_SourceLossEndsStream ==
    (source \in {"absent", "lost"}) ~> (prod_pc = "done" /\ ~sample_tx_alive)
\* C3 as amended.  The loss of the source does not end the producer loop:
\* with the device absent the thread enters the simulation loop, a failed
\* read leads back to the top of the device loop, the loop ends only in an
\* iteration that takes Stop from the control channel, and when it has
\* ended the sender is dropped (the queue is closed).
C3_EndsOnlyOnStop ==
    /\ [][(prod_pc # "done" /\ prod_pc' = "done")
            => (control_q # <<>> /\ Head(control_q) = Stop /\ cmd' = Stop)]_vars
    /\ [][(prod_pc = "open" /\ source # "ok" /\ prod_pc' # "open")
            => (prod_pc' = "sim_check" /\ sample_tx_alive')]_vars
    /\ [][(prod_pc = "read" /\ source = "lost" /\ prod_pc' # "read")
            => (prod_pc' = "check" /\ sample_tx_alive')]_vars
    /\ [](prod_pc = "done" => ~sample_tx_alive)
\* The source was lost and the loop ended, on Stop.
C3_Witness ==
    /\ source = "lost"
    /\ prod_pc = "done"
    /\ ~sample_tx_alive
    /\ cmd = Stop

\* C4.  Every producer loop checks an external stop signal between blocks
\* and, once stopped, eventually exits.  run_sdr_loop is given no stop
\* signal; what it can observe of a consumer that has stopped is that the
\* receiver of `out` is gone.
C4_SdrLoopStops == (~out_rx_alive) ~> (sdr_pc = "done")
\* The same for the thread of rtlsdr.rs, where it holds: once the
\* controller is dropped the thread ends, and a thread that has ended
\* sends nothing.
C4_RtlThreadStops ==
    /\ (~ctrl_alive) ~> (prod_pc = "done")
    /\ [][prod_pc = "done" => UNCHANGED <<prod_pc, sample_q, next_seq>>]_vars

\* C5.  decode_bytes on a fresh demodulator, given the bits of a byte
\* sequence B (each byte least significant bit first), returns exactly B,
\* and None only when B is empty.
C5_RoundTrip ==
    db_ret.called =>
        db_ret.ret = (IF db_bytes = <<>> THEN None ELSE Some(db_bytes))
\* Two bytes that are not bit palindromes went through.
C5_Witness ==
    /\ db_ret.called
    /\ db_bytes = <<65, 128>>
    /\ db_ret.ret.some

\* C6.  With a spreading factor in 8..12, symbols_to_bytes maps each symbol
\* s to the one byte (s >> (SF - 8)) & 0xFF, in order.
C6_TopByte ==
    (sym_out.called /\ spreading_factor \in 8..12) =>
        /\ Len(sym_out.bytes) = Len(sym_in)
        /\ \A i \in 1..Len(sym_in) :
              sym_out.bytes[i] = (sym_in[i] \div (2 ^ (spreading_factor - 8))) % 256
\* The SF = 12 unit test.
C6_Witness ==
    /\ sym_out.called
    /\ spreading_factor = 12
    /\ sym_in = <<1040, 1056, 1072>>
    /\ sym_out.bytes = <<65, 66, 67>>

\* The low 7 bits of each symbol, most significant first, concatenated.
RECURSIVE SevenBitStream(_)
SevenBitStream(symbols) ==
    IF symbols = <<>> THEN <<>>
    ELSE Bits(Head(symbols) % 128, 7) \o SevenBitStream(Tail(symbols))
\* The bits of a byte sequence, most significant first.
RECURSIVE ByteStream(_)
ByteStream(bytes) ==
    IF bytes = <<>> THEN <<>>
    ELSE Bits(Head(bytes), 8) \o ByteStream(Tail(bytes))

\* C7.  With spreading factor 7, n symbols give ceil(7n/8) bytes whose bits
\* are the symbols' low 7 bits in order followed by zero padding.
C7_SevenBitPacking ==
    (sym_out.called /\ spreading_factor = 7) =>
        LET n == Len(sym_in)
            m == (7 * n + 7) \div 8
        IN  /\ Len(sym_out.bytes) = m
            /\ \A i \in 1..m : sym_out.bytes[i] \in 0..255
            /\ ByteStream(sym_out.bytes) = SevenBitStream(sym_in) \o Zeros(8 * m - 7 * n)
\* Eight symbols gave seven bytes; three symbols gave a padded third byte.
C7_Witness ==
    /\ sym_out.called
    /\ spreading_factor = 7
    /\ \/ Len(sym_in) = 8 /\ Len(sym_out.bytes) = 7 /\ sym_in[1] = 62883
       \/ sym_in = <<65, 66, 67>> /\ Len(sym_out.bytes) = 3

\* C8.  A decoder whose spreading factor is outside 7..12, decoding a
\* non-empty block, reports a failure to its caller, with no bytes, and
\* does not panic.
C8_UnsupportedReported ==
    (dec_call.op = "decode" /\ dec_call.blk.len > 0 /\ spreading_factor \notin 7..12)
        => (dec_result.status = "Err" /\ dec_result.bytes = <<>>)

\* C9.  decode of an empty block returns an error and leaves the decoder
\* as it was, so that any later decode gives what it would have given
\* without the failed call.
C9_EmptyBlockRejected ==
    [][(dec_call'.op = "decode" /\ dec_call'.blk.len = 0)
         => /\ dec_result'.status = "Err"
            /\ Decoder' = Decoder
            /\ \A blk \in BlockArgs(fft_size) :
                  Decode(Decoder', blk) = Decode(Decoder, blk)]_vars
\* An empty block was rejected by a decoder that is not the default one.
C9_Witness ==
    /\ dec_call.op = "decode"
    /\ dec_call.blk.len = 0
    /\ dec_result.status = "Err"
    /\ spreading_factor = 9
    /\ bandwidth = 250000

\* C10.  The decoder's spreading factor is always within 7..12, after new
\* and after set_spreading_factor with any argument.
C10_SpreadingFactorInRange == spreading_factor \in 7..12

\* v is 2^e, for any e (2^e itself may exceed the integers of the checker).
RECURSIVE IsTwoToThe(_, _)
IsTwoToThe(v, e) ==
    IF e = 0 THEN v = 1
    ELSE v > 0 /\ v % 2 = 0 /\ IsTwoToThe(v \div 2, e - 1)

\* C11.  After any sequence of new, set_spreading_factor, set_bandwidth and
\* decode calls fft_size is 2^spreading_factor, and a decode that ran used
\* a preamble window, a symbol window, a reference downchirp and a
\* transform all of the length 2^(current spreading factor).
C11_FftSizeFollows ==
    /\ IsTwoToThe(fft_size, spreading_factor)
    /\ dec_result.status = "Ok" =>
          /\ IsTwoToThe(dec_result.window_size, spreading_factor)
          /\ IsTwoToThe(dec_result.symbol_size, spreading_factor)
          /\ IsTwoToThe(dec_result.downchirp_len, spreading_factor)
          /\ IsTwoToThe(dec_result.fft_len, spreading_factor)
\* The same of the decoders whose spreading factor is below the width of
\* usize: it holds of them.
C11_WhenShiftFits ==
    ~ShlOverflows(spreading_factor) =>
        /\ fft_size = 2 ^ spreading_factor
        /\ dec_result.status = "Ok" =>
              /\ dec_result.window_size = 2 ^ spreading_factor
              /\ dec_result.symbol_size = 2 ^ spreading_factor
              /\ dec_result.downchirp_len = 2 ^ spreading_factor
              /\ dec_result.fft_len = 2 ^ spreading_factor

\* C12.  Every symbol in the result of a successful decode is below
\* 2^spreading_factor, whatever the block and the spreading factor.
C12_SymbolsBelowSize ==
    dec_result.status = "Ok" =>
        \A i \in 1..Len(dec_result.symbols) :
            /\ dec_result.symbols[i] >= 0
            /\ dec_result.symbols[i] < 2 ^ spreading_factor
\* A decode returned the largest symbol value its spreading factor allows.
C12_Witness ==
    /\ dec_result.status = "Ok"
    /\ spreading_factor \in 7..12
    /\ \E i \in 1..Len(dec_result.symbols) :
          dec_result.symbols[i] = 2 ^ spreading_factor - 1

\* The last decode, by a decoder with a supported spreading factor, was
\* given a block that is silent but for one burst of energy exactly one
\* symbol long.
OneWindowBlock ==
    /\ dec_call.op = "decode"
    /\ dec_result.status = "Ok"
    /\ spreading_factor \in 7..12
    /\ dec_call.blk.hi - dec_call.blk.lo = fft_size

\* C18.  For a block of zero samples but for one high-energy window of
\* symbol-size length starting at index s, detect_preamble returns s.
C18_PreambleAtWindowStart ==
    OneWindowBlock => dec_result.offset = dec_call.blk.lo
\* The same for a window that starts on a quarter-symbol step and ends
\* before the end of the block, where the scan of detect_preamble reaches
\* it.
C18_AlignedInteriorWindow ==
    (OneWindowBlock /\ dec_call.blk.lo % (fft_size \div 4) = 0
                    /\ dec_call.blk.lo + fft_size < dec_call.blk.len)
        => dec_result.offset = dec_call.blk.lo

\* C20 as stated.  A consumer receive on an empty queue blocks until a
\* block is available: the consumer never comes out of a receive without
\* a block while the producer is alive.
C20_ReceiveBlocks ==
    [][(got' = "None" /\ got # "None") => ~sample_tx_alive]_vars
\* C20 as amended.  A consumer receive never blocks: get_samples can
\* always return while the controller lives; it returns without a block
\* exactly when the queue is empty, whether or not the producer is alive,
\* and the consumer then goes on with the block it had, the queue and the
\* number of the block it expects unchanged.
C20_ReceivePolls ==
    /\ [](ctrl_alive => ENABLED GetSamples)
    /\ [][(got' # got /\ got' = "None")
            => /\ sample_q = <<>>
               /\ UNCHANGED <<sample_q, current_samples, recv_seq>>]_vars
    /\ [][(got' # got /\ sample_q = <<>>) => got' = "None"]_vars
\* The consumer, having received blocks before, polled the empty queue of
\* a live producer and came back without a block.
C20_Witness ==
    /\ got = "None"
    /\ sample_q = <<>>
    /\ sample_tx_alive
    /\ ctrl_alive
    /\ current_samples # NoBlock

\* C13.  After every process call the timing counter lies in
\* [0, samples_per_bit), for any sample_rate and bitrate and any sequence
\* of blocks.
C13_BitPositionInRange ==
    consumed > 0 => (0 <= bit_position /\ bit_position < sample_rate)
\* The same for a demodulator with at least one sample per bit, where it
\* holds.
C13_WhenOversampled ==
    sample_rate >= bitrate => (0 <= bit_position /\ bit_position < sample_rate)

\* samples_per_bit rounded up: one bit period's worth of samples.
CeilSamplesPerBit == (sample_rate + bitrate - 1) \div bitrate

\* C14.  The in-progress bit accumulation buffer never holds more than one
\* bit period's worth of samples, bit_buffer.len() <= ceil(samples_per_bit),
\* across any sequence of blocks.
C14_BitBufferWithinPeriod ==
    bitrate > 0 => Len(bit_buffer) <= CeilSamplesPerBit
\* With a bit period of 5/2 samples: a bit was emitted at the third sample
\* and the buffer holds the sample that followed it.
C14_Witness ==
    /\ sample_rate = 5
    /\ bitrate = 2
    /\ emitted = 1
    /\ consumed = 4
    /\ Len(bit_buffer) = 1

\* C15.  Bit timing does not drift: when the N-th bit is emitted the
\* samples consumed so far differ from N * samples_per_bit by less than one
\* sample (both sides multiplied by bitrate).
C15_NoTimingDrift ==
    \A i \in 1..Len(emit_log) :
        Abs(emit_log[i].t * bitrate - emit_log[i].n * sample_rate) < bitrate
\* The same for a demodulator with at least one sample per bit, where it
\* holds.
C15_WhenOversampled ==
    sample_rate >= bitrate => C15_NoTimingDrift

\* C16.  The wrapped phase difference the FM discriminator computes lies
\* in (-pi, pi]: it is never -pi and never above pi.
C16_PhaseDiffHalfOpen ==
    \A i \in 1..Len(phase_diffs) : -PI < phase_diffs[i] /\ phase_diffs[i] <= PI
\* What the two loops of fm_discriminator do give: the closed interval.
C16_PhaseDiffClosed ==
    \A i \in 1..Len(phase_diffs) : -PI <= phase_diffs[i] /\ phase_diffs[i] <= PI

\* C17.  Whatever sample_rate, bitrate and deviation new is given, the
\* filter has between 5 and 64 taps, the state ring is as long as the
\* coefficient sequence, and no process call changes either length.
C17_FilterTapsFixed ==
    /\ [](/\ Len(lpf_coeffs) \in 5..64
          /\ Len(lpf_state) = Len(lpf_coeffs))
    /\ [][/\ Len(lpf_state') = Len(lpf_state)
          /\ Len(lpf_coeffs') = Len(lpf_coeffs)]_vars
\* Samples went through a filter whose tap count is neither limit.
C17_Witness ==
    /\ consumed > 0
    /\ Len(lpf_coeffs) = 8
    /\ Len(lpf_state) = 8
    /\ lpf_state[1] # 0

AllZero(seq) == \A i \in 1..Len(seq) : seq[i] = 0

WholeStream ==
    Process(GfskNew(sample_rate, bitrate, deviation), all_iq, 0, 0)

\* Of the result of a process call: the returned bits and the four fields
\* the demodulator carries from one call to the next.
BitsAndCarried(r) ==
    <<r.bits, r.dm.prev_phase, r.dm.lpf_state, r.dm.bit_buffer,
      r.dm.bit_position>>

\* C21.  However the stream is split into blocks, the bits returned by the
\* process calls, concatenated, are the bits one call on the whole stream
\* returns, and the phase, the filter ring, the bit buffer and the timing
\* counter end up the same; an empty block returns no bits and leaves those
\* four unchanged.
C21_BlockBoundaryIndependent ==
    /\ [](<<all_bits, prev_phase, lpf_state, bit_buffer, bit_position>>
            = BitsAndCarried(WholeStream))
    /\ [][all_iq' = all_iq
            => /\ bit_decisions' = <<>>
               /\ filtered_output' = <<>>
               /\ UNCHANGED <<prev_phase, lpf_state, bit_buffer,
                              bit_position, all_bits>>]_vars
\* At 5/2 samples per bit a one-sample block returned a bit: it was decided
\* on the second sample of the stream, which an earlier call had left in the
\* bit buffer.
C21_Witness ==
    /\ sample_rate = 5
    /\ bitrate = 2
    /\ consumed = 3
    /\ Len(fm_demod_output) = 1
    /\ Len(bit_decisions) = 1
    /\ all_emit_at = <<3>>
    /\ all_filtered[2] > 0
    /\ all_bits = <<TRUE>>
    /\ prev_phase # 0

\* Bits emitted while the first t samples of the stream were consumed.
EmittedUpTo(t) ==
    Cardinality({ i \in 1..Len(all_emit_at) : all_emit_at[i] <= t })
\* Samples consumed when bit i - 1 was emitted (none before the first bit).
EmitStart(i) == IF i = 1 THEN 0 ELSE all_emit_at[i - 1]
\* The sample bit i was decided on: the one at index floor(len / 2), clamped
\* to len - 1, of the len samples accumulated since bit i - 1.
MidpointSample(i) ==
    LET len == all_emit_at[i] - EmitStart(i)
    IN  all_filtered[EmitStart(i) + Min(len \div 2, len - 1) + 1]

\* C25.  recover_bits emits a bit at a sample exactly when the timing
\* counter, one more per sample and samples_per_bit less per bit, reaches
\* samples_per_bit there; at most one bit per sample; the bit is (v > 0)
\* for the midpoint sample v of the samples accumulated since the previous
\* bit (so 0 gives bit 0); the buffer is then cleared and samples_per_bit
\* subtracted from the counter.
C25_MidpointSlicer ==
    /\ Len(all_bits) = emitted
    /\ Len(all_emit_at) = emitted
    /\ Len(all_filtered) = consumed
    /\ \A t \in 1..consumed :
          (\E i \in 1..emitted : all_emit_at[i] = t)
            <=> t * bitrate - EmittedUpTo(t - 1) * sample_rate >= sample_rate
    /\ \A i \in 1..emitted :
          /\ all_emit_at[i] > EmitStart(i)
          /\ all_bits[i] = (MidpointSample(i) > 0)
    /\ bit_buffer = SubSeq(all_filtered, EmitStart(emitted + 1) + 1, consumed)
    /\ bit_position = consumed * bitrate - emitted * sample_rate
\* At 5/2 samples per bit two bits were emitted, at samples 3 and 5: the
\* first on a midpoint sample that is positive, the second on one that is
\* exactly 0.
C25_Witness ==
    /\ sample_rate = 5
    /\ bitrate = 2
    /\ all_emit_at = <<3, 5>>
    /\ MidpointSample(1) > 0
    /\ MidpointSample(2) = 0
    /\ all_bits = <<TRUE, FALSE>>
    /\ bit_buffer = <<>>
    /\ bit_position = 0

\* C22.  After any sequence of decode_bytes calls with T bits in all, the
\* bytes returned, concatenated, are the first 8 * floor(T / 8) bits
\* taken 8 at a time least significant bit first, and byte_buffer holds the
\* remaining T mod 8 bits in order, fewer than 8.
C22_StreamingByteAssembly ==
    LET T == Len(bits_in)
        whole == 8 * (T \div 8)
    IN  /\ Len(bytes_out) = T \div 8
        /\ \A k \in 1..Len(bytes_out) : bytes_out[k] \in 0..255
        /\ ExpandLsbFirst(bytes_out) = SubSeq(bits_in, 1, whole)
        /\ byte_buffer = SubSeq(bits_in, whole + 1, T)
        /\ Len(byte_buffer) = T % 8
        /\ Len(byte_buffer) < 8
\* Calls of 3, 5 and 9 bits: the second completed the byte 0x07 across a
\* call boundary, the third completed 0xA5 and left one bit over.
C22_Witness ==
    /\ Len(bits_in) = 17
    /\ bytes_out = <<7, 165>>
    /\ byte_buffer = <<TRUE>>
    /\ db_ret.ret = Some(<<165>>)

\* C23.  decode_bytes returns None exactly when fewer than 8 bits are
\* available once the call's bits are appended to the leftover buffer, and
\* otherwise a present, non-empty byte sequence; never present but empty.
C23_NoneIffUnderEightBits ==
    [][LET available == Len(byte_buffer) + (Len(bits_in') - Len(bits_in))
       IN  db_ret' # db_ret \/ bits_in' # bits_in
             => /\ db_ret'.ret.some <=> available >= 8
                /\ db_ret'.ret.some => db_ret'.ret.val # <<>>
                /\ ~db_ret'.ret.some => db_ret'.ret = None]_vars
\* A call returned a byte and left 7 bits; the next call, with no bits,
\* returned None.
C23_Witness ==
    /\ db_ret.called
    /\ db_ret.ret = None
    /\ Len(byte_buffer) = 7
    /\ Len(bytes_out) = 1

\* C24.  extract_symbols, given offset o and L samples, reads the windows
\* that start at o, o + 2^SF, ... and returns one symbol for each,
\* floor((L - o) / 2^SF) in all: it stops when fewer than 2^SF samples
\* remain, reads no sample past the end, and no sample is in two windows.
C24_WindowsTiled ==
    dec_result.status = "Ok" =>
        LET L == dec_call.blk.len
            o == dec_result.offset
            symbol_size == 2 ^ spreading_factor
            w == dec_result.windows
        IN  /\ Len(dec_result.symbols) = Len(w)
            /\ Len(w) = (L - o) \div symbol_size
            /\ \A k \in 1..Len(w) :
                  /\ w[k] = o + (k - 1) * symbol_size
                  /\ w[k] + symbol_size <= L
                  /\ \A j \in 1..(k - 1) : w[j] + symbol_size <= w[k]
            /\ L - (o + Len(w) * symbol_size) < symbol_size
            /\ L - (o + Len(w) * symbol_size) >= 0
\* SF 7, a block of 288 samples synchronised at offset 32: two symbols, from
\* the windows at 32 and 160, the second ending at the end of the block.
C24_Witness ==
    /\ dec_result.status = "Ok"
    /\ spreading_factor = 7
    /\ dec_call.blk.len = 288
    /\ dec_result.offset = 32
    /\ dec_result.windows = <<32, 160>>
    /\ Len(dec_result.symbols) = 2

\* What C26 says of a decode call that ran detect_preamble on blk and
\* returned res, for a symbol size of n samples.
PreambleOffsetInRange(blk, res, n) ==
    LET L == blk.len
        o == res.offset
        step == n \div 4
        tried == { k * step : k \in 0..((L - n - 1) \div step) }
    IN  /\ L <= n => o = 0
        /\ L > n =>
              /\ o % step = 0
              /\ o < L - n
              /\ \A c \in tried :
                    /\ WindowPower(blk, c, n) <= WindowPower(blk, o, n)
                    /\ c < o => WindowPower(blk, c, n) < WindowPower(blk, o, n)
        /\ L >= n =>
              /\ Len(res.symbols) >= 1
              /\ \A k \in 1..Len(res.windows) : res.windows[k] + n <= L

\* C26 as stated.  detect_preamble returns 0 for a block of at most 2^SF
\* samples and otherwise the smallest multiple of 2^SF / 4 below L - 2^SF
\* whose window has the most power; so a decode of a block of at least
\* 2^SF samples extracts at least one symbol and reads nothing past the end.
C26_PreambleOffsetInRange ==
    (dec_call.op = "decode" /\ dec_call.blk.len > 0) =>
        /\ dec_result.status = "Ok"
        /\ PreambleOffsetInRange(dec_call.blk, dec_result, 2 ^ spreading_factor)
\* The same of the decode calls that returned: it holds of them.
C26_WhenDecodeReturns ==
    dec_result.status = "Ok" =>
        PreambleOffsetInRange(dec_call.blk, dec_result, 2 ^ spreading_factor)

\* The thread leaves the top of its loop.
LoopTopLeft == prod_pc \in {"check", "sim_check"} /\ prod_pc' # prod_pc

\* C27.  The producer thread takes at most one command per loop iteration,
\* the oldest one: a Stop sent behind k commands is acted on by the
\* (k+1)-th iteration begun after it was sent, the k before it having each
\* taken one of those commands and gone on to read and send; the iteration
\* that takes Stop sends no block and, on the device path, sets is_running
\* to false.  In simulation mode is_running is false throughout and the
\* other commands are taken without effect.
C27_OneCommandPerIteration ==
    /\ [](prod_pc = "done" =>
            /\ cmd = Stop
            /\ stop_behind >= 0
            /\ stop_iters = stop_behind + 1
            /\ mode = "device" => ~is_running)
    /\ [](mode = "sim" => ~is_running)
    /\ [][/\ Len(control_q') < Len(control_q) =>
               /\ LoopTopLeft
               /\ cmd' = Head(control_q)
               /\ IF Head(control_q) = Stop
                    THEN /\ prod_pc' = "done"
                         /\ stop_iters' = stop_behind + 1
                         /\ UNCHANGED <<sample_q, samples, next_seq>>
                    ELSE /\ control_q' = Tail(control_q)
                         /\ prod_pc' \in {"read", "sim_send"}
                         /\ UNCHANGED is_running
          /\ (LoopTopLeft /\ control_q = <<>>) =>
               /\ prod_pc' \in {"read", "sim_send"}
               /\ UNCHANGED <<cmd, control_q, is_running>>
          /\ (prod_pc = "send" /\ prod_pc' # prod_pc) =>
               /\ prod_pc' = "check"
               /\ ctrl_alive => sample_q' = Append(sample_q, samples)
          /\ (prod_pc = "sim_send" /\ prod_pc' # prod_pc) =>
               /\ prod_pc' = "sim_check"
               /\ ctrl_alive => sample_q' = Append(sample_q, samples')
          /\ mode = "sim" => UNCHANGED <<dev_freq, dev_rate, is_running>>]_vars
\* The controller was dropped with two commands still queued; the device
\* loop took them one per iteration, applying each, and ended on the third
\* iteration, with Stop.
C27_Witness ==
    /\ prod_pc = "done"
    /\ mode = "device"
    /\ cmd = Stop
    /\ stop_behind = 2
    /\ stop_iters = 3
    /\ ~is_running
    /\ dev_freq # DefaultFreq
    /\ dev_rate # DefaultRate
\* In simulation mode a command was taken ahead of Stop and changed nothing.
C27_SimWitness ==
    /\ prod_pc = "done"
    /\ mode = "sim"
    /\ stop_behind = 1
    /\ stop_iters = 2
    /\ dev_freq = 0
    /\ dev_rate = 0

====
